---- MODULE Spec2Model ----
(***************************************************************************)
(* hdl_localization::PoseEstimator (pose_estimator.hpp): the dual-filter   *)
(* pose estimator.  One inertial filter (ukf, always present), one lazily  *)
(* created odometry filter (odom_ukf), the three entry points predict,     *)
(* predict_odom and correct, and the accessors.                            *)
(*                                                                         *)
(* Numbers.  Time is counted in whole seconds (ros::Time 0 is the zero     *)
(* time).  Covariances are diagonal, one variance per block of the state   *)
(* vector, in units of 1e-3 (the two bias blocks in units of 1e-6).        *)
(* Quaternions are <<w, x, y, z>> in units of                              *)
(* 1/QUnit and lie on a coordinate axis (the group {+-1, +-i, +-j, +-k},   *)
(* possibly shortened), so that products, dot products, normalisation and  *)
(* the conversion to and from rotation matrices are exact; the rotation    *)
(* matrices of this group are diagonal and are kept as their diagonal.     *)
(***************************************************************************)
EXTENDS Integers, Sequences, FiniteSets, TLC

\* ---------------------------------------------------------------- bounds
MaxStamp == 4
MaxCalls == 4

\* ------------------------------------------------------------- constants
QUnit == 2
CovUnit == 1000

BiasCovUnit == 1000000

None == [absent |-> TRUE]

Abs(n) == IF n < 0 THEN -n ELSE n

Sign(n) == IF n > 0 THEN 1 ELSE IF n < 0 THEN -1 ELSE 0

\* ------------------------------------------------------- Eigen: vectors
Zero3 == <<0, 0, 0>>

VAdd(a, b) == <<a[1] + b[1], a[2] + b[2], a[3] + b[3]>>

VScale(a, k) == <<a[1] * k, a[2] * k, a[3] * k>>

\* Eigen::Vector3f::norm, for the axis-parallel vectors of the model
VNorm(a) == Abs(a[1]) + Abs(a[2]) + Abs(a[3])

\* ---------------------------------------------------- Eigen: quaternions
QIdentity == <<QUnit, 0, 0, 0>>

QNeg(q) == <<-q[1], -q[2], -q[3], -q[4]>>

\* coeffs().dot(), in units of 1/QUnit^2
QDot(a, b) == a[1] * b[1] + a[2] * b[2] + a[3] * b[3] + a[4] * b[4]

\* squared norm, in units of 1/QUnit^2
QNorm2(q) == QDot(q, q)

IsUnit(q) == QNorm2(q) = QUnit * QUnit

\* Eigen::Quaternionf::normalized: q / |q| (axis quaternions keep their axis
\* and sign and get length one).
Normalized(q) == <<Sign(q[1]) * QUnit, Sign(q[2]) * QUnit, Sign(q[3]) * QUnit, Sign(q[4]) * QUnit>>

\* Hamilton product a * b
QMul(a, b) ==
  << (a[1] * b[1] - a[2] * b[2] - a[3] * b[3] - a[4] * b[4]) \div QUnit,
     (a[1] * b[2] + a[2] * b[1] + a[3] * b[4] - a[4] * b[3]) \div QUnit,
     (a[1] * b[3] - a[2] * b[4] + a[3] * b[1] + a[4] * b[2]) \div QUnit,
     (a[1] * b[4] + a[2] * b[3] - a[3] * b[2] + a[4] * b[1]) \div QUnit >>

\* Eigen::Quaternionf::toRotationMatrix of a unit quaternion (its diagonal)
ToRotationMatrix(q) ==
  << (q[1] * q[1] + q[2] * q[2] - q[3] * q[3] - q[4] * q[4]) \div (QUnit * QUnit),
     (q[1] * q[1] - q[2] * q[2] + q[3] * q[3] - q[4] * q[4]) \div (QUnit * QUnit),
     (q[1] * q[1] - q[2] * q[2] - q[3] * q[3] + q[4] * q[4]) \div (QUnit * QUnit) >>

\* Eigen::Quaternionf(Matrix3f): trace > 0 gives w > 0, otherwise the
\* component of the largest diagonal entry is the positive one.
QuatFromMatrix(m) ==
  IF m[1] + m[2] + m[3] > 0 THEN QIdentity
  ELSE IF m[1] >= m[2] /\ m[1] >= m[3] THEN <<0, QUnit, 0, 0>>
  ELSE IF m[2] >= m[3] THEN <<0, 0, QUnit, 0>>
  ELSE <<0, 0, 0, QUnit>>

\* ------------------------------------------------- Eigen: 4x4 transforms
RotIdentity == <<1, 1, 1>>

RotApply(r, v) == <<r[1] * v[1], r[2] * v[2], r[3] * v[3]>>

RotMul(a, b) == <<a[1] * b[1], a[2] * b[2], a[3] * b[3]>>

Transform(r, t) == [rot |-> r, trans |-> t]

\* Matrix4f::inverse of a rigid transform
TInverse(m) == Transform(m.rot, VScale(RotApply(m.rot, m.trans), -1))

\* a * b
TMul(a, b) == Transform(RotMul(a.rot, b.rot), VAdd(RotApply(a.rot, b.trans), a.trans))

\* ------------------------------------------------ PoseEstimator(): noise
\* process_noise: Identity(16, 16) with the rows of each block scaled
process_noise ==
  [pos |-> CovUnit, vel |-> CovUnit, quat |-> CovUnit \div 2,
   acc_bias |-> BiasCovUnit \div 1000000, gyro_bias |-> BiasCovUnit \div 1000000]

measurement_noise == [pos |-> CovUnit \div 100, quat |-> CovUnit \div 1000]

\* the process noise is not scaled
ScaledNoise_Unscaled(dt) == process_noise

\* process_noise * dt
ScaledNoise(dt) ==
  [pos |-> process_noise.pos * dt, vel |-> process_noise.vel * dt, quat |-> process_noise.quat * dt,
   acc_bias |-> process_noise.acc_bias * dt, gyro_bias |-> process_noise.gyro_bias * dt]

\* --------------------------------------------- predict_odom(): constants
odom_measurement_noise == [pos |-> CovUnit \div 1000, quat |-> CovUnit \div 1000]

odom_init_cov == [pos |-> CovUnit \div 100, quat |-> CovUnit \div 100]

\* floor added to both blocks of the adaptive odometry process noise
OdomNoiseFloor == CovUnit \div 1000

\* ------------------------------------------------------- motion models
\* Rotation by gyro * dt.  The angular rates of the model are whole half
\* turns per second about z, so the increment is a power of k.
DeltaQuat(gyro, dt) ==
  IF gyro = Zero3 THEN QIdentity
  ELSE CASE dt % 4 = 0 -> QIdentity
         [] dt % 4 = 1 -> <<0, 0, 0, QUnit>>
         [] dt % 4 = 2 -> QNeg(QIdentity)
         [] OTHER -> <<0, 0, 0, -QUnit>>

\* PoseSystem::f: position from velocity, velocity from the acceleration
\* rotated into the reference frame, orientation from the angular velocity,
\* biases constant.
PoseSystem_f(state, control, dt) ==
  [pos |-> VAdd(state.pos, VScale(state.vel, dt)),
   vel |-> VAdd(state.vel, VScale(RotApply(ToRotationMatrix(Normalized(state.quat)), control.acc), dt)),
   quat |-> QMul(state.quat, DeltaQuat(control.gyro, dt)),
   acc_bias |-> state.acc_bias,
   gyro_bias |-> state.gyro_bias]

\* OdomSystem::f: the pose composed with the relative transform
OdomSystem_f(state, control) ==
  [pos |-> VAdd(state.pos, RotApply(ToRotationMatrix(Normalized(state.quat)), control.pos)),
   quat |-> QMul(state.quat, control.quat)]

\* ------------------------------------------- UnscentedKalmanFilterX
\* predict: the mean goes through the motion model, the process noise is
\* added to the covariance.
UKFAddNoise(cov, noise) == [b \in DOMAIN cov |-> cov[b] + noise[b]]

UKFPredict(filter, next_mean) ==
  [filter EXCEPT !.mean = next_mean, !.cov = UKFAddNoise(filter.cov, filter.process_noise)]

\* Kalman gain c / (c + r) of one observed block, rounded to 0 or 1
Gain(c, r) == IF c >= r THEN 1 ELSE 0

\* posterior variance (1 - K) * c * (1 - K) + K * r * K of one observed block
Posterior(c, r) == (1 - Gain(c, r)) * c * (1 - Gain(c, r)) + Gain(c, r) * r * Gain(c, r)

\* mean + K * (observation - mean) for the orientation block: equal
\* quaternions stay, otherwise the blend points along the observation and is
\* shorter than a unit quaternion.
BlendQuat(q, z, k) ==
  IF k = 0 \/ q = z THEN q
  ELSE <<Sign(z[1]) * (QUnit \div 2), Sign(z[2]) * (QUnit \div 2), Sign(z[3]) * (QUnit \div 2), Sign(z[4]) * (QUnit \div 2)>>

BlendPos(p, z, k) == IF k = 0 THEN p ELSE z

\* correct: the observed blocks (position, orientation) move to the
\* observation by the gain and their variances shrink.
UKFCorrect(filter, observation) ==
  [filter EXCEPT
     !.mean.pos = BlendPos(@, observation.pos, Gain(filter.cov.pos, filter.measurement_noise.pos)),
     !.mean.quat = BlendQuat(@, observation.quat, Gain(filter.cov.quat, filter.measurement_noise.quat)),
     !.cov.pos = Posterior(@, filter.measurement_noise.pos),
     !.cov.quat = Posterior(@, filter.measurement_noise.quat)]

\* ------------------------------------------------------------- inputs
InitStamps == {1}

CoolTimes == {0, 2}

InitPositions == {Zero3}

InitQuats == {QIdentity}

Stamps == 0..MaxStamp

Accs == {Zero3, <<1, 0, 0>>}

Gyros == {Zero3, <<0, 0, 1>>}

\* a half turn about z
RotZ == <<-1, -1, 1>>

\* the relative transforms odometry reports
OdomDeltas == {Transform(RotIdentity, <<1, 0, 0>>), Transform(RotZ, Zero3)}

\* the transforms the scan matcher may return, whatever the guess
FinalTransforms == {Transform(RotIdentity, Zero3), Transform(RotZ, <<1, 0, 0>>)}

\* ---------------------------------------------------------------- state
VARIABLES
  init_stamp,             \* when the estimator was initialized
  prev_stamp,             \* when the estimator was updated last time
  last_correction_stamp,  \* when the estimator performed the correction step
  cool_time_duration,
  ukf,                    \* the inertial filter
  odom_ukf,               \* the odometry filter, None until created
  imu_pred_error,         \* boost::optional<Matrix4f>
  odom_pred_error,        \* boost::optional<Matrix4f>
  correcting,             \* the locals of a correct call that has not returned, or None
  trace,                  \* the last entry point called and the calls it made
  ncalls                  \* how many entry points have been called

vars ==
  <<init_stamp, prev_stamp, last_correction_stamp, cool_time_duration, ukf, odom_ukf,
    imu_pred_error, odom_pred_error, correcting, trace, ncalls>>

\* the estimator's own fields
estimator ==
  <<init_stamp, prev_stamp, last_correction_stamp, cool_time_duration, ukf, odom_ukf,
    imu_pred_error, odom_pred_error>>

\* -------------------------------------------------------------- getters
\* returns the wrong timestamp field
last_correction_time_PrevStamp == prev_stamp

last_correction_time == last_correction_stamp

pos == ukf.mean.pos

vel == ukf.mean.vel

quat == Normalized(ukf.mean.quat)

matrix == Transform(ToRotationMatrix(quat), pos)

odom_pos == odom_ukf.mean.pos

odom_quat == Normalized(odom_ukf.mean.quat)

odom_matrix == Transform(ToRotationMatrix(odom_quat), odom_pos)

imu_prediction_error == imu_pred_error

odom_prediction_error == odom_pred_error

\* ---------------------------------------------------------- constructor
Init ==
  /\ init_stamp \in InitStamps
  /\ cool_time_duration \in CoolTimes
  /\ prev_stamp = 0
  /\ last_correction_stamp = 0
  /\ \E p \in InitPositions, q \in InitQuats :
       ukf = [mean |-> [pos |-> p, vel |-> Zero3, quat |-> q, acc_bias |-> Zero3, gyro_bias |-> Zero3],
              cov |-> [pos |-> CovUnit \div 100, vel |-> CovUnit \div 100, quat |-> CovUnit \div 100,
                       acc_bias |-> BiasCovUnit \div 100, gyro_bias |-> BiasCovUnit \div 100],
              process_noise |-> process_noise,
              measurement_noise |-> measurement_noise,
              dt |-> 0]
  /\ odom_ukf = None
  /\ imu_pred_error = None
  /\ odom_pred_error = None
  /\ correcting = None
  /\ trace = [op |-> "construct", args |-> <<>>, invoked |-> <<>>, before |-> <<>>, accepted |-> <<>>]
  /\ ncalls = 0

\* what the trace keeps of the state an entry point was called in
\* (accepted: the stamp of the last predict call that ran the prediction, or
\* the empty sequence)
Before ==
  [op |-> trace.op, prev_stamp |-> prev_stamp, last_correction_stamp |-> last_correction_stamp,
   accepted |-> trace.accepted]

\* ------------------------------------------------------------ predict()
\* the early return without the cool-time test
PredictSuppressed_NoCoolTime(stamp) ==
  \/ prev_stamp = 0
  \/ prev_stamp = stamp

\* the early return without the equal-timestamp test
PredictSuppressed_NoSameStamp(stamp) ==
  \/ stamp - init_stamp < cool_time_duration
  \/ prev_stamp = 0

\* the early return without the zero-timestamp test
PredictSuppressed_NoZeroStamp(stamp) ==
  \/ stamp - init_stamp < cool_time_duration
  \/ prev_stamp = stamp

\* the early return with the end of the cool time still suppressed
PredictSuppressed_CoolTimeInclusive(stamp) ==
  \/ stamp - init_stamp <= cool_time_duration
  \/ prev_stamp = 0
  \/ prev_stamp = stamp

\* the early return of predict
PredictSuppressed(stamp) ==
  \/ stamp - init_stamp < cool_time_duration
  \/ prev_stamp = 0
  \/ prev_stamp = stamp

Predict(stamp, acc, gyro) ==
  LET control == [acc |-> acc, gyro |-> gyro]
      dt == stamp - prev_stamp
      next_mean == PoseSystem_f(ukf.mean, control, dt)
      args == [stamp |-> stamp]
  IN
  IF PredictSuppressed(stamp)
  THEN /\ prev_stamp' = stamp
       /\ trace' = [op |-> "predict", args |-> args, invoked |-> <<>>, before |-> Before,
                    accepted |-> trace.accepted]
       /\ UNCHANGED <<correcting, init_stamp, last_correction_stamp, cool_time_duration, ukf, odom_ukf,
                      imu_pred_error, odom_pred_error>>
  ELSE /\ prev_stamp' = stamp
       /\ ukf' = UKFPredict([ukf EXCEPT !.process_noise = ScaledNoise(dt), !.dt = dt], next_mean)
       /\ trace' = [op |-> "predict", args |-> args,
                    invoked |-> <<[fn |-> "ukf.predict", arg |-> control, dt |-> dt,
                                   noise |-> ScaledNoise(dt)]>>,
                    before |-> Before, accepted |-> <<stamp>>]
       /\ UNCHANGED <<correcting, init_stamp, last_correction_stamp, cool_time_duration, odom_ukf,
                      imu_pred_error, odom_pred_error>>

\* ------------------------------------------------------- predict_odom()
\* seeded with the identity pose instead of the inertial estimate
OdomSeedMean_Identity == [pos |-> Zero3, quat |-> QIdentity]

\* the mean the odometry filter is created with
OdomSeedMean == [pos |-> <<ukf.mean.pos[1], ukf.mean.pos[2], ukf.mean.pos[3]>>, quat |-> ukf.mean.quat]

\* the filter predict_odom creates when there is none
NewOdomUkf ==
  [mean |-> OdomSeedMean,
   cov |-> odom_init_cov,
   process_noise |-> [pos |-> CovUnit, quat |-> CovUnit],
   measurement_noise |-> odom_measurement_noise]

\* the adaptive process noise of one relative transform
OdomProcessNoise(odom_delta, q) ==
  [pos |-> VNorm(odom_delta.trans) * CovUnit + OdomNoiseFloor,
   quat |-> ((QUnit - Abs(q[1])) * CovUnit) \div QUnit + OdomNoiseFloor]

PredictOdom(odom_delta) ==
  LET created == odom_ukf = None
      filter == IF created THEN NewOdomUkf ELSE odom_ukf
      q == QuatFromMatrix(odom_delta.rot)
      control == [pos |-> odom_delta.trans, quat |-> q]
      noise == OdomProcessNoise(odom_delta, q)
      next_mean == OdomSystem_f(filter.mean, control)
      reset == IF created THEN <<[fn |-> "odom_ukf.reset", arg |-> NewOdomUkf]>> ELSE <<>>
  IN
  /\ odom_ukf' = UKFPredict([filter EXCEPT !.process_noise = noise], next_mean)
  /\ trace' = [op |-> "predict_odom", args |-> <<>>,
               invoked |-> reset \o <<[fn |-> "odom_ukf.predict", arg |-> control, noise |-> noise]>>,
               before |-> Before, accepted |-> trace.accepted]
  /\ UNCHANGED <<correcting, init_stamp, prev_stamp, last_correction_stamp, cool_time_duration, ukf,
                 imu_pred_error, odom_pred_error>>

\* ------------------------------------------------------------ correct()
RECURSIVE GCD(_, _)
GCD(a, b) == IF b = 0 THEN a ELSE GCD(b, a % b)

GCD4(v) == GCD(GCD(Abs(v[1]), Abs(v[2])), GCD(Abs(v[3]), Abs(v[4])))

\* The rotation of Quaternionf(v).normalized().toRotationMatrix() for any
\* quaternion v, axis or not: v scaled to coprime integers, with the sign
\* that makes its first non-zero component positive (q and -q are the same
\* rotation).  The zero quaternion has no rotation and stays zero.
RotationOf(v) ==
  LET g == GCD4(v)
      d == IF g = 0 THEN v ELSE <<v[1] \div g, v[2] \div g, v[3] \div g, v[4] \div g>>
      lead == IF d[1] # 0 THEN d[1] ELSE IF d[2] # 0 THEN d[2] ELSE IF d[3] # 0 THEN d[3] ELSE d[4]
  IN IF lead < 0 THEN QNeg(d) ELSE d

\* --- exact fractions for the matrix inverses of the fusion.  A fraction is
\* kept in lowest terms with a positive denominator; a division by zero
\* gives NaN, which every later operation keeps.
NaN == [num |-> 0, den |-> 0]

Rat(n, d) ==
  IF d = 0 THEN NaN
  ELSE LET g == GCD(Abs(n), Abs(d))
           s == IF d < 0 THEN -1 ELSE 1
       IN [num |-> (s * n) \div g, den |-> (s * d) \div g]

RInv(x) == IF x.den = 0 THEN NaN ELSE Rat(x.den, x.num)

RMul(x, y) ==
  IF x.den = 0 \/ y.den = 0 THEN NaN
  ELSE LET g1 == GCD(Abs(x.num), y.den)
           g2 == GCD(Abs(y.num), x.den)
       IN Rat((x.num \div g1) * (y.num \div g2), (x.den \div g2) * (y.den \div g1))

RAdd(x, y) ==
  IF x.den = 0 \/ y.den = 0 THEN NaN
  ELSE LET g == GCD(x.den, y.den)
       IN Rat(x.num * (y.den \div g) + y.num * (x.den \div g), (x.den \div g) * y.den)

\* a vector of whole numbers as a vector of fractions
RVec(v) == [i \in DOMAIN v |-> Rat(v[i], 1)]

RECURSIVE DenProduct(_, _)
DenProduct(v, n) == IF n = 0 THEN 1 ELSE v[n].den * DenProduct(v, n - 1)

\* Quaternionf(v[1], v[2], v[3], v[4]) for fractions v, up to a positive
\* factor: whole numbers in the same proportion (NaN gives the zero
\* quaternion).
QuatDirection(v) ==
  IF \E i \in 1..4 : v[i].den = 0 THEN <<0, 0, 0, 0>>
  ELSE LET m == DenProduct(v, 4)
       IN <<v[1].num * (m \div v[1].den), v[2].num * (m \div v[2].den),
            v[3].num * (m \div v[3].den), v[4].num * (m \div v[4].den)>>

\* init_guess = matrix(): a 4x4 transform as the guess handed to align
GuessOf(m) == [trans |-> RVec(m.trans), rot |-> RotationOf(QuatFromMatrix(m.rot))]

\* imu_mean and imu_cov: the position and orientation blocks of the
\* inertial belief
ImuPoseBelief ==
  [mean |-> [pos |-> ukf.mean.pos, quat |-> ukf.mean.quat],
   cov |-> [pos |-> ukf.cov.pos, quat |-> ukf.cov.quat]]

OdomPoseBelief == [mean |-> odom_ukf.mean, cov |-> odom_ukf.cov]

\* cov.inverse() of a diagonal covariance
CovInverse(cov) == [b \in DOMAIN cov |-> RInv(Rat(cov[b], 1))]

\* the sum of the inverses is not inverted back
FusedCov_NotInverted(A, B) ==
  [b \in DOMAIN A.cov |-> RAdd(CovInverse(A.cov)[b], CovInverse(B.cov)[b])]

\* fused_cov = (inv_imu_cov + inv_odom_cov).inverse()
FusedCov(A, B) ==
  [b \in DOMAIN A.cov |-> RInv(RAdd(CovInverse(A.cov)[b], CovInverse(B.cov)[b]))]

\* the components of one block of
\* fused_cov * inv_imu_cov * imu_mean + fused_cov * inv_odom_cov * odom_mean
FusedBlock(A, B, b) ==
  LET fused_cov == FusedCov(A, B)[b]
      imu_weight == RMul(fused_cov, CovInverse(A.cov)[b])
      odom_weight == RMul(fused_cov, CovInverse(B.cov)[b])
  IN [i \in DOMAIN A.mean[b] |->
        RAdd(RMul(imu_weight, Rat(A.mean[b][i], 1)), RMul(odom_weight, Rat(B.mean[b][i], 1)))]

\* fused_mean
FusedMean(A, B) == [b \in DOMAIN A.mean |-> FusedBlock(A, B, b)]

\* init_guess of the dual-filter branch: the fused position and the rotation
\* of the normalised fused orientation
FusedGuess ==
  LET fused_mean == FusedMean(ImuPoseBelief, OdomPoseBelief)
  IN [trans |-> fused_mean.pos, rot |-> RotationOf(QuatDirection(fused_mean.quat))]

\* the odometry guess is never taken
OdomGuess_NeverTaken == <<>>

\* Eigen::Matrix4f odom_guess; if(odom_ukf) odom_guess = odom_matrix():
\* empty while the local is uninitialised
OdomGuess == IF odom_ukf # None THEN <<odom_matrix>> ELSE <<>>

\* what an uninitialised Matrix4f may hold
UninitialisedGuesses ==
  {Transform(r, t) : r \in {RotIdentity, RotZ}, t \in {Zero3, <<1, 0, 0>>}}

\* the inertial guess is used even when the odometry filter exists
InitGuess_NeverFused == GuessOf(matrix)

\* init_guess: matrix() without the odometry filter, the fused pose with it
InitGuess == IF odom_ukf = None THEN GuessOf(matrix) ELSE FusedGuess

\* the observation without the sign test
Observation_NoFlip(final) == [pos |-> final.trans, quat |-> QuatFromMatrix(final.rot)]

\* the observation: the position and orientation of the final transform,
\* the orientation negated when it disagrees with quat()
Observation(final) ==
  LET q == QuatFromMatrix(final.rot)
  IN [pos |-> final.trans, quat |-> IF QDot(quat, q) < 0 THEN QNeg(q) ELSE q]

\* the guess is not inverted
PredError_NoInverse(guess, final) == TMul(guess, final)

\* imu_pred_error = imu_guess.inverse() * getFinalTransformation()
PredError(guess, final) == TMul(TInverse(guess), final)

\* the odometry filter is released by the correction
OdomUkfCorrected_Dropped(observation) == None

\* the odometry filter is left uncorrected
OdomUkfCorrected_Skipped(observation) == odom_ukf

\* if(odom_ukf) odom_ukf->correct(observation)
OdomUkfCorrected(observation) ==
  IF odom_ukf # None THEN UKFCorrect(odom_ukf, observation) ELSE odom_ukf

\* the odometry prediction error is never recorded
OdomPredErrorRecorded_Never(odom_guess, final) == odom_pred_error

\* if(odom_ukf) odom_pred_error = odom_guess.inverse() * ...
OdomPredErrorRecorded(odom_guess, final) ==
  IF odom_ukf # None THEN PredError(odom_guess, final) ELSE odom_pred_error

\* correct records its stamp as the stamp of the last predict call too
Correct_RecordsPrevStamp(stamp, final) ==
  LET has_odom == odom_ukf # None
      imu_guess == matrix
      odom_guess == IF has_odom THEN odom_matrix ELSE None
      init_guess == InitGuess
      observation == Observation(final)
      odom_calls == IF has_odom THEN <<[fn |-> "odom_ukf.correct", arg |-> observation]>> ELSE <<>>
  IN
  /\ last_correction_stamp' = stamp
  /\ ukf' = UKFCorrect(ukf, observation)
  /\ imu_pred_error' = PredError(imu_guess, final)
  /\ odom_ukf' = OdomUkfCorrected(observation)
  /\ odom_pred_error' = OdomPredErrorRecorded(odom_guess, final)
  /\ trace' = [op |-> "correct", args |-> [stamp |-> stamp, final |-> final],
               invoked |-> <<[fn |-> "registration.align", arg |-> init_guess],
                             [fn |-> "ukf.correct", arg |-> observation]>> \o odom_calls,
               before |-> Before, accepted |-> trace.accepted]
  /\ prev_stamp' = stamp
  /\ UNCHANGED <<correcting, init_stamp, cool_time_duration>>

Correct(stamp, final) ==
  LET has_odom == odom_ukf # None
      imu_guess == matrix
      odom_guess == IF has_odom THEN odom_matrix ELSE None
      init_guess == InitGuess
      observation == Observation(final)
      odom_calls == IF has_odom THEN <<[fn |-> "odom_ukf.correct", arg |-> observation]>> ELSE <<>>
  IN
  /\ last_correction_stamp' = stamp
  /\ ukf' = UKFCorrect(ukf, observation)
  /\ imu_pred_error' = PredError(imu_guess, final)
  /\ odom_ukf' = OdomUkfCorrected(observation)
  /\ odom_pred_error' = OdomPredErrorRecorded(odom_guess, final)
  /\ trace' = [op |-> "correct", args |-> [stamp |-> stamp, final |-> final],
               invoked |-> <<[fn |-> "registration.align", arg |-> init_guess],
                             [fn |-> "ukf.correct", arg |-> observation]>> \o odom_calls,
               before |-> Before, accepted |-> trace.accepted]
  /\ UNCHANGED <<correcting, init_stamp, prev_stamp, cool_time_duration>>

\* --- correct() in two steps, for callers that do not serialise the entry
\* points: up to the call of registration->align, and from its return on.
CorrectBegin(stamp) ==
  /\ correcting = None
  /\ last_correction_stamp' = stamp
  /\ correcting' = [stamp |-> stamp, imu_guess |-> matrix, odom_guess |-> OdomGuess,
                    init_guess |-> InitGuess]
  /\ trace' = [op |-> "correct_begin", args |-> [stamp |-> stamp],
               invoked |-> <<[fn |-> "registration.align", arg |-> InitGuess]>>,
               before |-> Before, accepted |-> trace.accepted]
  /\ UNCHANGED <<init_stamp, prev_stamp, cool_time_duration, ukf, odom_ukf, imu_pred_error,
                 odom_pred_error>>

CorrectEnd(final) ==
  LET has_odom == odom_ukf # None
      observation == Observation(final)
      odom_calls == IF has_odom THEN <<[fn |-> "odom_ukf.correct", arg |-> observation]>> ELSE <<>>
  IN
  /\ correcting # None
  /\ ukf' = UKFCorrect(ukf, observation)
  /\ imu_pred_error' = PredError(correcting.imu_guess, final)
  /\ odom_ukf' = OdomUkfCorrected(observation)
  /\ \E odom_guess \in IF correcting.odom_guess # <<>> THEN {correcting.odom_guess[1]}
                        ELSE UninitialisedGuesses :
       odom_pred_error' = OdomPredErrorRecorded(odom_guess, final)
  /\ correcting' = None
  /\ trace' = [op |-> "correct",
               args |-> [stamp |-> correcting.stamp, final |-> final,
                         odom_guess |-> correcting.odom_guess],
               invoked |-> <<[fn |-> "registration.align", arg |-> correcting.init_guess],
                             [fn |-> "ukf.correct", arg |-> observation]>> \o odom_calls,
               before |-> Before, accepted |-> trace.accepted]
  /\ UNCHANGED <<init_stamp, prev_stamp, last_correction_stamp, cool_time_duration, ncalls>>

\* ------------------------------------------------------- specification
\* one more entry point is called, while the run is short enough
Called ==
  /\ ncalls < MaxCalls
  /\ ncalls' = ncalls + 1

Next ==
  \/ \E stamp \in Stamps, acc \in Accs, gyro \in Gyros : Called /\ Predict(stamp, acc, gyro)
  \/ \E odom_delta \in OdomDeltas : Called /\ PredictOdom(odom_delta)
  \/ \E stamp \in Stamps, final \in FinalTransforms : Called /\ Correct(stamp, final)

Spec == Init /\ [][Next]_vars

\* --- the fusion on given beliefs: an estimator in dual-filter mode whose two
\* filters hold beliefs drawn from small sets, corrected by scan matches.
FusionCovs ==
  {[pos |-> CovUnit, quat |-> CovUnit \div 10],
   [pos |-> 4 * CovUnit, quat |-> (4 * CovUnit) \div 10],
   [pos |-> CovUnit \div 100, quat |-> CovUnit \div 100]}

FusionPositions == {Zero3, <<1, 0, 0>>}

FusionQuats == {QIdentity, <<0, 0, 0, QUnit>>, <<QUnit \div 2, 0, 0, 0>>}

FusionInit ==
  /\ init_stamp \in InitStamps
  /\ cool_time_duration \in CoolTimes
  /\ prev_stamp = 0
  /\ last_correction_stamp = 0
  /\ \E p \in FusionPositions, q \in FusionQuats, c \in FusionCovs :
       ukf = [mean |-> [pos |-> p, vel |-> Zero3, quat |-> q, acc_bias |-> Zero3, gyro_bias |-> Zero3],
              cov |-> [pos |-> c.pos, vel |-> 2 * CovUnit, quat |-> c.quat,
                       acc_bias |-> BiasCovUnit \div 100, gyro_bias |-> BiasCovUnit \div 100],
              process_noise |-> process_noise,
              measurement_noise |-> measurement_noise,
              dt |-> 0]
  /\ \E p \in FusionPositions, q \in FusionQuats, c \in FusionCovs :
       odom_ukf = [mean |-> [pos |-> p, quat |-> q],
                   cov |-> c,
                   process_noise |-> [pos |-> CovUnit, quat |-> CovUnit],
                   measurement_noise |-> odom_measurement_noise]
  /\ imu_pred_error = None
  /\ odom_pred_error = None
  /\ correcting = None
  /\ trace = [op |-> "construct", args |-> <<>>, invoked |-> <<>>, before |-> <<>>, accepted |-> <<>>]
  /\ ncalls = 0

FusionNext == \E stamp \in Stamps, final \in FinalTransforms : Called /\ Correct(stamp, final)

FusionSpec == FusionInit /\ [][FusionNext]_vars

\* --- the odometry and scan-matching entry points when the caller does not
\* serialise them: predict_odom may run while a correct call waits for the
\* scan matcher.
InterleavedNext ==
  \/ \E odom_delta \in OdomDeltas : Called /\ PredictOdom(odom_delta)
  \/ \E stamp \in Stamps : Called /\ CorrectBegin(stamp)
  \/ \E final \in FinalTransforms : CorrectEnd(final)

InterleavedSpec == Init /\ [][InterleavedNext]_vars

\* ---------------------------------------------------------- properties
\* the calls to fn among the calls an entry point made
InvokedIn(t, fn) == SelectSeq(t.invoked, LAMBDA e : e.fn = fn)

\* C1: a predict call whose stamp is within cool_time_duration of init_stamp
\* leaves the inertial mean and covariance as they were; prev_stamp becomes
\* the stamp and nothing else of the estimator changes.
CoolTimePredictOnlyBookkeeps ==
  [][(trace'.op = "predict" /\ trace'.args.stamp - init_stamp < cool_time_duration)
       => /\ ukf'.mean = ukf.mean
          /\ ukf'.cov = ukf.cov
          /\ prev_stamp' = trace'.args.stamp
          /\ UNCHANGED <<init_stamp, last_correction_stamp, cool_time_duration, ukf, odom_ukf,
                         imu_pred_error, odom_pred_error>>]_vars

\* a predict call inside the cool time that nothing else would have
\* suppressed, made after a correction
CoolTimePredictSeen ==
  /\ trace.op = "predict"
  /\ trace.args.stamp - init_stamp < cool_time_duration
  /\ trace.before.prev_stamp # 0
  /\ trace.before.prev_stamp # trace.args.stamp
  /\ imu_pred_error # None

\* C2: a predict call whose stamp is not later than the previous last-seen
\* stamp leaves the inertial mean and covariance as they were and invokes no
\* filter prediction; only prev_stamp is updated.
NonIncreasingStampAbsorbed ==
  [][(trace'.op = "predict" /\ trace'.args.stamp <= prev_stamp)
       => /\ ukf'.mean = ukf.mean
          /\ ukf'.cov = ukf.cov
          /\ trace'.invoked = <<>>
          /\ prev_stamp' = trace'.args.stamp]_vars

\* C3: a predict call with the stamp of the predict call just before it
\* changes no field of the estimator.
SameStampPredictIdempotent ==
  [][(trace.op = "predict" /\ trace'.op = "predict" /\ trace'.args.stamp = trace.args.stamp)
       => estimator' = estimator]_vars

\* the second of two predict calls with one stamp, past the cool time, the
\* first of which ran the filter prediction
SameStampPredictSeen ==
  /\ trace.op = "predict"
  /\ trace.before.op = "predict"
  /\ trace.before.prev_stamp = trace.args.stamp
  /\ trace.args.stamp - init_stamp >= cool_time_duration
  /\ trace.invoked = <<>>
  /\ ukf.process_noise # process_noise

\* C4: the odometry filter is absent after construction, only predict_odom
\* creates it (and always does), and once present it stays present.
OdomFilterOneWay ==
  /\ odom_ukf = None
  /\ [][/\ odom_ukf # None => odom_ukf' # None
        /\ (odom_ukf = None /\ odom_ukf' # None) => trace'.op = "predict_odom"
        /\ trace'.op = "predict_odom" => odom_ukf' # None]_vars

\* the odometry filter is still there after a later correct
OdomFilterKeptSeen ==
  /\ odom_ukf # None
  /\ trace.op = "correct"
  /\ trace.before.op = "predict"

\* C5: the first predict_odom call starts the odometry filter from the
\* inertial filter's position and orientation of that moment with covariance
\* 0.01 * I and then predicts; a later call predicts from the odometry
\* filter's own state.
OdomFilterSeededOnce ==
  [][trace'.op = "predict_odom"
       => LET call == trace'.invoked[Len(trace'.invoked)]
              start == IF odom_ukf = None
                       THEN [mean |-> [pos |-> pos, quat |-> ukf.mean.quat],
                             cov |-> [pos |-> CovUnit \div 100, quat |-> CovUnit \div 100]]
                       ELSE [mean |-> odom_ukf.mean, cov |-> odom_ukf.cov]
          IN /\ call.fn = "odom_ukf.predict"
             /\ (Len(trace'.invoked) = 2) <=> (odom_ukf = None)
             /\ odom_ukf'.mean = OdomSystem_f(start.mean, call.arg)
             /\ odom_ukf'.cov = UKFAddNoise(start.cov, call.noise)]_vars

\* the odometry filter was created from an inertial pose that is not the
\* constructor's
OdomFilterSeededSeen ==
  /\ trace.op = "predict_odom"
  /\ Len(trace.invoked) = 2
  /\ trace.invoked[1].arg.mean.pos # Zero3
  /\ trace.invoked[1].arg.mean.quat # QIdentity

\* C6: every correct call corrects the inertial filter once, with any final
\* transform, and corrects the odometry filter once exactly when it exists,
\* with the same observation.
EveryCorrectCorrectsBothFilters ==
  [][trace'.op = "correct"
       => LET imu == InvokedIn(trace', "ukf.correct")
              odom == InvokedIn(trace', "odom_ukf.correct")
          IN /\ Len(imu) = 1
             /\ Len(odom) = IF odom_ukf # None THEN 1 ELSE 0
             /\ ukf' = UKFCorrect(ukf, imu[1].arg)
             /\ odom_ukf # None => (odom[1].arg = imu[1].arg /\ odom_ukf' = UKFCorrect(odom_ukf, imu[1].arg))
             /\ odom_ukf = None => odom_ukf' = None]_vars

\* a correct call that corrected both filters with a rotated final transform
BothFiltersCorrectedSeen ==
  /\ trace.op = "correct"
  /\ Len(InvokedIn(trace, "odom_ukf.correct")) = 1
  /\ trace.args.final.rot = RotZ

\* C7: last_correction_time() is the zero time until correct is called and
\* then the stamp of the latest correct call, older than the one before or
\* not.
LastCorrectionTimeIsLatest ==
  /\ last_correction_time = 0
  /\ [][last_correction_time' = IF trace'.op = "correct" THEN trace'.args.stamp ELSE last_correction_time]_vars

\* a correct call with a stamp older than the correction before it
OlderCorrectionSeen ==
  /\ trace.op = "correct"
  /\ trace.args.stamp < trace.before.last_correction_stamp
  /\ last_correction_time = trace.args.stamp

\* C8: the inertial prediction error is present exactly from the first
\* correct call on, the odometry prediction error exactly from the first
\* correct call made with the odometry filter present; an odometry error
\* implies the odometry filter and an inertial error.
PredictionErrorsFollowCorrect ==
  /\ imu_prediction_error = None
  /\ odom_prediction_error = None
  /\ [][/\ (imu_prediction_error' # None) <=> (imu_prediction_error # None \/ trace'.op = "correct")
        /\ (odom_prediction_error' # None)
             <=> (odom_prediction_error # None \/ (trace'.op = "correct" /\ odom_ukf # None))]_vars
  /\ [](odom_prediction_error # None => (odom_ukf # None /\ imu_prediction_error # None))

\* the odometry filter exists and was never corrected: only the inertial
\* error is present
OnlyImuErrorSeen ==
  /\ imu_prediction_error # None
  /\ odom_ukf # None
  /\ odom_prediction_error = None

\* C9: the orientation of the observation is the final transform's
\* orientation or its negation, has a non-negative dot product with the
\* inertial orientation before the correction, and the position is the
\* final transform's.
ObservationSignAligned ==
  [][trace'.op = "correct"
       => LET obs == InvokedIn(trace', "ukf.correct")[1].arg
              q == QuatFromMatrix(trace'.args.final.rot)
          IN /\ obs.quat \in {q, QNeg(q)}
             /\ QDot(quat, obs.quat) >= 0
             /\ obs.pos = trace'.args.final.trans]_vars

\* a correct call that negated the orientation
ObservationFlippedSeen ==
  /\ trace.op = "correct"
  /\ InvokedIn(trace, "ukf.correct")[1].arg.quat = QNeg(QuatFromMatrix(trace.args.final.rot))

\* C10: every quaternion taken from a filter state is normalised before
\* use: by the accessors, when the odometry filter is seeded, and when the
\* two beliefs are fused in correct.
QuaternionsNormalisedBeforeUse ==
  [][/\ IsUnit(quat')
     /\ odom_ukf' # None => IsUnit(odom_quat')
     /\ (trace'.op = "predict_odom" /\ odom_ukf = None) => IsUnit(trace'.invoked[1].arg.mean.quat)
     /\ (trace'.op = "correct" /\ odom_ukf # None)
          => (IsUnit(ImuPoseBelief.mean.quat) /\ IsUnit(OdomPoseBelief.mean.quat))]_vars

\* C11: with the odometry filter present, the guess of correct comes from
\* the information-form fusion of the two pose beliefs: for the variances a
\* (inertial position or orientation block, not velocity) and b (odometry)
\* of a block, fused_cov = a * b / (a + b) and every component of fused_mean
\* is the precision-weighted average (b * m_imu + a * m_odom) / (a + b).
FusionIsPrecisionWeighted ==
  [][(trace'.op = "correct" /\ odom_ukf # None)
       => LET A == [mean |-> [pos |-> ukf.mean.pos, quat |-> ukf.mean.quat],
                    cov |-> [pos |-> ukf.cov.pos, quat |-> ukf.cov.quat]]
              B == [mean |-> odom_ukf.mean, cov |-> odom_ukf.cov]
              Average(b, i) ==
                Rat(B.cov[b] * A.mean[b][i] + A.cov[b] * B.mean[b][i], A.cov[b] + B.cov[b])
              guess == InvokedIn(trace', "registration.align")[1].arg
          IN /\ \A b \in {"pos", "quat"} :
                  /\ FusedCov(A, B)[b] = Rat(A.cov[b] * B.cov[b], A.cov[b] + B.cov[b])
                  /\ \A i \in DOMAIN A.mean[b] : FusedMean(A, B)[b][i] = Average(b, i)
             /\ guess.trans = <<Average("pos", 1), Average("pos", 2), Average("pos", 3)>>
             /\ guess.rot = RotationOf(QuatDirection(<<Average("quat", 1), Average("quat", 2),
                                                       Average("quat", 3), Average("quat", 4)>>))]_vars

\* the beliefs diag(1, .., 0.1, ..) at the origin and diag(4, .., 0.4, ..) at
\* (1, 0, 0) were fused: the guess is at (1/5, 0, 0)
FusionExampleSeen ==
  /\ trace.op = "correct"
  /\ Len(InvokedIn(trace, "odom_ukf.correct")) = 1
  /\ trace.invoked[1].arg.trans[1] = [num |-> 1, den |-> 5]

\* C12: in dual-filter mode the observation handed to the odometry filter's
\* correction has a non-negative dot product with the odometry filter's own
\* orientation before the correction.
OdomObservationSignAligned ==
  [][(trace'.op = "correct" /\ odom_ukf # None)
       => QDot(odom_quat, InvokedIn(trace', "odom_ukf.correct")[1].arg.quat) >= 0]_vars

\* C13 as claimed: a predict call that is not suppressed hands the filter
\* the time since the last predict call that ran a prediction.
PredictUsesTimeSinceAccepted ==
  [][(trace'.op = "predict" /\ trace'.invoked # <<>> /\ trace.accepted # <<>>)
       => trace'.invoked[1].dt = trace'.args.stamp - trace.accepted[1]]_vars

\* C13 as amended: a predict call that is not suppressed invokes the filter
\* prediction exactly once, with dt the time since the stamp of the predict
\* call before it, suppressed or not, and with process noise
\* process_noise * dt.
PredictUsesTimeSinceLastCall ==
  [][(/\ trace'.op = "predict"
      /\ trace'.args.stamp - init_stamp >= cool_time_duration
      /\ prev_stamp # 0
      /\ prev_stamp # trace'.args.stamp)
       => LET dt == trace'.args.stamp - prev_stamp
          IN /\ Len(trace'.invoked) = 1
             /\ trace'.invoked[1].fn = "ukf.predict"
             /\ trace'.invoked[1].dt = dt
             /\ trace'.invoked[1].noise = [b \in DOMAIN process_noise |-> process_noise[b] * dt]
             /\ ukf'.process_noise = trace'.invoked[1].noise
             /\ ukf'.dt = dt
             /\ ukf'.cov = [b \in DOMAIN ukf.cov |-> ukf.cov[b] + process_noise[b] * dt]]_vars

\* a prediction whose dt starts at a suppressed call, not at the last call
\* that ran a prediction
DtSinceSuppressedCallSeen ==
  /\ trace.op = "predict"
  /\ trace.invoked # <<>>
  /\ trace.before.accepted # <<>>
  /\ trace.before.accepted # <<trace.before.prev_stamp>>
  /\ trace.invoked[1].dt = trace.args.stamp - trace.before.prev_stamp

\* C14: a predict call made while no previous timestamp is recorded, as the
\* very first one on a fresh estimator is, changes neither mean nor
\* covariance whatever the cool time and the stamp; it only records the
\* stamp. So a predict call that runs the prediction has a predict call
\* before it.
FirstPredictOnlyRecordsStamp ==
  [][(trace'.op = "predict" /\ prev_stamp = 0)
       => /\ trace'.invoked = <<>>
          /\ ukf' = ukf
          /\ prev_stamp' = trace'.args.stamp
          /\ UNCHANGED <<init_stamp, last_correction_stamp, cool_time_duration, odom_ukf,
                         imu_pred_error, odom_pred_error>>]_vars

\* the first call on a fresh estimator without cool time is a predict with a
\* stamp after the construction
FirstPredictPastCoolTimeSeen ==
  /\ trace.op = "predict"
  /\ trace.before.op = "construct"
  /\ cool_time_duration = 0
  /\ trace.args.stamp > init_stamp
  /\ trace.invoked = <<>>
  /\ prev_stamp = trace.args.stamp

\* C15: a predict call at or after the end of the cool time, made when a
\* previous timestamp is recorded and is earlier than the stamp, invokes the
\* inertial filter's prediction, and the covariance grows.
PredictAfterCoolTimePredicts ==
  [][(/\ trace'.op = "predict"
      /\ trace'.args.stamp - init_stamp >= cool_time_duration
      /\ prev_stamp # 0
      /\ prev_stamp < trace'.args.stamp)
       => /\ Len(InvokedIn(trace', "ukf.predict")) = 1
          /\ \A b \in DOMAIN ukf.cov : ukf'.cov[b] > ukf.cov[b]
          /\ ukf'.mean = PoseSystem_f(ukf.mean, trace'.invoked[1].arg, trace'.args.stamp - prev_stamp)]_vars

\* a predict call inside the cool time, then one at its end that predicts
PredictAtEndOfCoolTimeSeen ==
  /\ trace.op = "predict"
  /\ cool_time_duration > 0
  /\ trace.args.stamp - init_stamp = cool_time_duration
  /\ trace.before.op = "predict"
  /\ trace.before.prev_stamp # 0
  /\ trace.before.prev_stamp - init_stamp < cool_time_duration
  /\ trace.before.accepted = <<>>
  /\ Len(InvokedIn(trace, "ukf.predict")) = 1

\* C16: the initial guess handed to the scan matcher is the inertial
\* filter's pose transform when the odometry filter is absent, and the fused
\* position with the normalised fused orientation when it is present, both
\* taken from the beliefs as they are when correct is entered.
InitGuessFromPreCorrectionBeliefs ==
  [][trace'.op = "correct"
       => LET guess == InvokedIn(trace', "registration.align")[1].arg
              fused_mean == FusedMean(ImuPoseBelief, OdomPoseBelief)
          IN /\ trace'.invoked[1].fn = "registration.align"
             /\ odom_ukf = None
                  => /\ guess.trans = RVec(pos)
                     /\ guess.rot = RotationOf(QuatFromMatrix(ToRotationMatrix(quat)))
             /\ odom_ukf # None
                  => /\ guess.trans = fused_mean.pos
                     /\ guess.rot = RotationOf(QuatDirection(fused_mean.quat))]_vars

\* a dual-filter correct whose guess is neither the fused pose nor the
\* inertial pose of the beliefs after the correction
InitGuessBeforeCorrectionSeen ==
  /\ trace.op = "correct"
  /\ Len(InvokedIn(trace, "odom_ukf.correct")) = 1
  /\ trace.invoked[1].arg # FusedGuess
  /\ trace.invoked[1].arg # GuessOf(matrix)

\* C17: after a correct call the inertial prediction error is the inverse
\* of the inertial pose on entry composed with the final transform, and with
\* an odometry filter the odometry prediction error is the inverse of the
\* odometry pose on entry composed with the same final transform.
PredictionErrorsFromPreCorrectionGuesses ==
  [][trace'.op = "correct"
       => LET final == trace'.args.final
          IN /\ imu_pred_error' = TMul(TInverse(Transform(ToRotationMatrix(quat), pos)), final)
             /\ odom_ukf # None
                  => odom_pred_error'
                       = TMul(TInverse(Transform(ToRotationMatrix(odom_quat), odom_pos)), final)]_vars

\* a dual-filter correct whose two errors differ from each other and from
\* the errors the poses after the correction would give
PredictionErrorsBeforeCorrectionSeen ==
  /\ trace.op = "correct"
  /\ Len(InvokedIn(trace, "odom_ukf.correct")) = 1
  /\ imu_pred_error # odom_pred_error
  /\ imu_pred_error # PredError(matrix, trace.args.final)
  /\ odom_pred_error # PredError(odom_matrix, trace.args.final)

\* C18: predict leaves the odometry filter, the last correction time and
\* both prediction errors alone; predict_odom leaves the inertial mean and
\* covariance, prev_stamp, the last correction time and both prediction
\* errors alone; correct leaves prev_stamp alone; none of them changes
\* init_stamp or cool_time_duration.
FrameConditions ==
  [][/\ trace'.op = "predict"
          => UNCHANGED <<odom_ukf, last_correction_stamp, imu_pred_error, odom_pred_error>>
     /\ trace'.op = "predict_odom"
          => /\ ukf'.mean = ukf.mean
             /\ ukf'.cov = ukf.cov
             /\ UNCHANGED <<prev_stamp, last_correction_stamp, imu_pred_error, odom_pred_error>>
     /\ trace'.op = "correct" => UNCHANGED prev_stamp
     /\ UNCHANGED <<init_stamp, cool_time_duration>>]_vars

\* a prediction whose dt spans a correct call made since the predict call
\* before it
PredictSpansCorrectionSeen ==
  /\ trace.op = "predict"
  /\ trace.before.op = "correct"
  /\ trace.before.last_correction_stamp > trace.before.prev_stamp
  /\ Len(InvokedIn(trace, "ukf.predict")) = 1
  /\ trace.invoked[1].dt = trace.args.stamp - trace.before.prev_stamp
  /\ trace.args.stamp > trace.before.last_correction_stamp

\* C19: when nothing runs between the two steps of a correct call, the
\* odometry filter exists at the correction exactly if it existed when the
\* guesses were taken, so a call that corrects the odometry filter records
\* the odometry prediction error from the guess it took itself.
SerialisedCorrectUsesItsOwnGuess ==
  [][(trace.op = "correct_begin" /\ trace'.op = "correct")
       => /\ (odom_ukf # None) <=> (correcting.odom_guess # <<>>)
          /\ Len(InvokedIn(trace', "odom_ukf.correct")) = 1
               => /\ correcting.odom_guess = <<odom_matrix>>
                  /\ odom_pred_error' = PredError(odom_matrix, trace'.args.final)]_vars

\* a predict_odom call ran inside a correct call: the odometry filter is
\* corrected and an odometry prediction error recorded although the call
\* took no odometry guess
OdomErrorFromMissingGuessSeen ==
  /\ trace.op = "correct"
  /\ trace.before.op = "predict_odom"
  /\ Len(InvokedIn(trace, "odom_ukf.correct")) = 1
  /\ trace.args.odom_guess = <<>>
  /\ odom_pred_error # None

====
